---- MODULE Spec2Model ----
(***************************************************************************)
(* A model of arbitrage_bot.py: the poll loop (probe, fetch_prices,        *)
(* find_arbitrage, log write, sleep), the log file on disk and the         *)
(* in-memory table df_log, and the arithmetic of find_arbitrage.           *)
(*                                                                         *)
(* Numbers.  Python's int is unbounded and the prices and profits are      *)
(* floats.  The model computes with exact rationals over unbounded         *)
(* naturals (little-endian sequences of base-1000 limbs), so that no       *)
(* product of the program's constants (10^8, 10^12, 0.997, 0.999) is cut   *)
(* off; the rounding of IEEE doubles is not modelled.                      *)
(***************************************************************************)
EXTENDS Integers, Sequences, FiniteSets, TLC

VARIABLES
    pc,             \* where the process is: "start", "fetch", "find", "log", "sleep", "exited"; "call"/"returned" in SpecFind
    exit_status,    \* the exit status of the process once pc = "exited" (-1 while it runs)
    cycle,          \* wall-clock tick: the number of loop iterations begun so far, over all runs of the process
    out_weth,       \* the values get_amount_out returned in this cycle, in DEXES order
    prices,         \* the dict built by fetch_prices: a sequence of [dex, price] in insertion order
    opportunities,  \* the list find_arbitrage returned in this cycle
    df_log,         \* the in-memory table of all rows of this run of the process
    file,           \* the rows of arbitrage_log.csv on disk
    min_profit,     \* the configured MIN_PROFIT
    prev_failed,    \* the venues whose price was unavailable in the previous cycle of this run
    write_raised    \* whether the last log write raised

vars == <<pc, exit_status, cycle, out_weth, prices, opportunities,
          df_log, file, min_profit, prev_failed, write_raised>>

\* Python's None, shaped like a number so that it can be compared with one:
\* it is no number (its denominator is 0) and no operator below produces it.
None == [neg |-> FALSE, n |-> <<>>, d |-> <<>>]

(***************************************************************************)
(* Unbounded naturals.                                                     *)
(***************************************************************************)
Base == 10 * 10 * 10

RECURSIVE Big(_)
Big(n) == IF n = 0 THEN <<>> ELSE <<n % Base>> \o Big(n \div Base)

RECURSIVE Trim(_)
Trim(s) == IF s = <<>> THEN s
           ELSE IF s[Len(s)] = 0 THEN Trim(SubSeq(s, 1, Len(s) - 1)) ELSE s

RECURSIVE Carry(_, _)
Carry(c, k) == IF c = <<>> THEN Big(k)
               ELSE LET t == Head(c) + k
                    IN  <<t % Base>> \o Carry(Tail(c), t \div Base)

Limb(a, i) == IF i >= 1 /\ i <= Len(a) THEN a[i] ELSE 0

RECURSIVE ConvSum(_, _, _, _)
ConvSum(a, b, k, i) == IF i > Len(a) THEN 0
                       ELSE a[i] * Limb(b, k + 1 - i) + ConvSum(a, b, k, i + 1)

BigMul(a, b) == IF a = <<>> \/ b = <<>> THEN <<>>
                ELSE Trim(Carry([k \in 1..(Len(a) + Len(b) - 1) |-> ConvSum(a, b, k, 1)], 0))

Max(x, y) == IF x >= y THEN x ELSE y

BigAdd(a, b) == Trim(Carry([k \in 1..Max(Len(a), Len(b)) |-> Limb(a, k) + Limb(b, k)], 0))

RECURSIVE BigLessFrom(_, _, _)
BigLessFrom(a, b, i) == IF i = 0 THEN FALSE
                        ELSE IF a[i] # b[i] THEN a[i] < b[i]
                        ELSE BigLessFrom(a, b, i - 1)

BigLess(a, b) == IF Len(a) # Len(b) THEN Len(a) < Len(b) ELSE BigLessFrom(a, b, Len(a))

RECURSIVE Borrow(_, _, _, _)
Borrow(a, b, i, br) == IF i > Len(a) THEN <<>>
                       ELSE LET t == a[i] - Limb(b, i) - br
                            IN  IF t < 0 THEN <<t + Base>> \o Borrow(a, b, i + 1, 1)
                                ELSE <<t>> \o Borrow(a, b, i + 1, 0)

\* a - b for a >= b
BigSub(a, b) == Trim(Borrow(a, b, 1, 0))

RECURSIVE Pow10(_)
Pow10(e) == IF e = 0 THEN Big(1) ELSE BigMul(Big(10), Pow10(e - 1))

(***************************************************************************)
(* Exact rationals: [neg, n, d] is (-1)^neg * n / d.                       *)
(***************************************************************************)
R(n, d) == [neg |-> FALSE, n |-> Big(n), d |-> Big(d)]

\* the same number with the common factors 1000 of n and d cancelled
RECURSIVE RNorm(_)
RNorm(x) == IF x.n # <<>> /\ x.d # <<>> /\ Head(x.n) = 0 /\ Head(x.d) = 0
            THEN RNorm([x EXCEPT !.n = Tail(@), !.d = Tail(@)])
            ELSE x

RSign(x) == IF x.n = <<>> THEN 0 ELSE IF x.neg THEN -1 ELSE 1

RMul(x, y) == RNorm([neg |-> x.neg # y.neg, n |-> BigMul(x.n, y.n), d |-> BigMul(x.d, y.d)])

RDiv(x, y) == RNorm([neg |-> x.neg # y.neg, n |-> BigMul(x.n, y.d), d |-> BigMul(x.d, y.n)])

RNeg(x) == [x EXCEPT !.neg = ~x.neg]

RAdd(x, y) ==
    LET a == BigMul(x.n, y.d)
        b == BigMul(y.n, x.d)
        d == BigMul(x.d, y.d)
    IN  RNorm(IF x.neg = y.neg THEN [neg |-> x.neg, n |-> BigAdd(a, b), d |-> d]
              ELSE IF BigLess(a, b) THEN [neg |-> y.neg, n |-> BigSub(b, a), d |-> d]
              ELSE [neg |-> x.neg, n |-> BigSub(a, b), d |-> d])

RSub(x, y) == RAdd(x, RNeg(y))

RLess(x, y) ==
    LET sx == RSign(x)
        sy == RSign(y)
    IN  IF sx # sy THEN sx < sy
        ELSE IF sx = 0 THEN FALSE
        ELSE IF sx = 1 THEN BigLess(BigMul(x.n, y.d), BigMul(y.n, x.d))
        ELSE BigLess(BigMul(y.n, x.d), BigMul(x.n, y.d))

REq(x, y) == ~RLess(x, y) /\ ~RLess(y, x)

(***************************************************************************)
(* Configuration.                                                          *)
(***************************************************************************)
DEXES == <<"Uniswap", "Quickswap", "Sushiswap">>

TOKEN0_decimals == 6
TOKEN1_decimals == 18

START_AMOUNT == 100 * (10 ^ TOKEN0_decimals)

FEE_RATE == R(3, 1000)
SLIPPAGE == R(1, 1000)
MIN_PROFIT == 1

One == R(1, 1)

\* 1 - FEE_RATE, 1 - SLIPPAGE, 10 ** (TOKEN1["decimals"] - TOKEN0["decimals"]), 10 ** TOKEN0["decimals"]
KeepFee == RSub(One, FEE_RATE)
KeepSlip == RSub(One, SLIPPAGE)
PriceScale == [neg |-> FALSE, n |-> Pow10(TOKEN1_decimals - TOKEN0_decimals), d |-> Big(1)]
Token0Unit == R(10 ^ TOKEN0_decimals, 1)

(***************************************************************************)
(* get_amount_out.  A reply of the remote call is "raise" (transport       *)
(* error, timeout, revert, a response the decoder rejects) or the decoded  *)
(* uint256[] list `amounts`; an empty list makes amounts[-1] raise         *)
(* IndexError inside the try block.  A reply is [raised, amounts]; an      *)
(* amount is a natural number n/1.                                         *)
(***************************************************************************)
get_amount_out(reply) ==
    IF reply.raised THEN None
    ELSE IF reply.amounts = <<>> THEN None
    ELSE reply.amounts[Len(reply.amounts)]

\* `if out_weth:` -- None and 0 are falsy
truthy(out) == out # None /\ out.n # <<>>

\* price_entry with `if out_weth is not None:` in place of `if out_weth:`
price_entry_not_none(out) ==
    IF out # None
    THEN RMul(RDiv(R(START_AMOUNT, 1), out), PriceScale)
    ELSE None

\* the body of the loop of fetch_prices for one venue: the value stored in prices[dex]
price_entry(out) ==
    IF truthy(out)
    THEN RMul(RDiv(R(START_AMOUNT, 1), out), PriceScale)
    ELSE None

(***************************************************************************)
(* find_arbitrage.  `ps` (prices) is the dict as a sequence of [dex, price]     *)
(* records in key order; a price is a rational or None.                    *)
(***************************************************************************)
\* skip without the tests for None
skip_self_only(ps, i, j) == i = j

\* line 129: the guard of `continue`
skip(ps, i, j) == i = j \/ ps[i].price = None \/ ps[j].price = None

\* profit_of without the fee and slippage deductions
profit_of_no_fee(buy_price, sell_price) ==
    LET usdc_start == R(START_AMOUNT, 1)
    IN  RSub(RMul(RDiv(usdc_start, buy_price), sell_price), usdc_start)

\* lines 139-149
profit_of(buy_price, sell_price) ==
    LET usdc_start   == R(START_AMOUNT, 1)
        amount_weth1 == RDiv(RMul(usdc_start, KeepFee), buy_price)
        amount_weth  == RMul(amount_weth1, KeepSlip)
        usdc_final1  == RMul(RMul(amount_weth, sell_price), KeepFee)
        usdc_final   == RMul(usdc_final1, KeepSlip)
    IN  RSub(usdc_final, usdc_start)

\* store with `>=` in place of `>`
store_or_equal(profit, mp) == ~RLess(profit, R(mp, 1))

\* line 152
store(profit, mp) == RLess(R(mp, 1), profit)

\* lines 129-160: one pass of the inner loop body.  acc = [raised, opps, divided_by];
\* divided_by lists the venues whose price was used as a divisor (line 142).
\* Comparing None with a float raises TypeError, which ends find_arbitrage.
pair_step(ps, mp, ts, i, j, acc) ==
    IF acc.raised THEN acc
    ELSE IF skip(ps, i, j) THEN acc
    ELSE LET buy_dex    == ps[i].dex
             sell_dex   == ps[j].dex
             buy_price  == ps[i].price
             sell_price == ps[j].price
         IN  IF buy_price = None \/ sell_price = None
             THEN [acc EXCEPT !.raised = TRUE]
             ELSE IF RLess(buy_price, sell_price)
             THEN LET profit == profit_of(buy_price, sell_price)
                      acc2   == [acc EXCEPT !.divided_by = Append(@, buy_dex)]
                  IN  IF store(profit, mp)
                      THEN [acc2 EXCEPT !.opps = Append(@,
                               [timestamp  |-> ts,
                                buy_on     |-> buy_dex,
                                sell_on    |-> sell_dex,
                                buy_price  |-> buy_price,
                                sell_price |-> sell_price,
                                profit     |-> RDiv(profit, Token0Unit)])]
                      ELSE acc2
             ELSE acc

RECURSIVE find_loop(_, _, _, _, _)
find_loop(ps, mp, ts, k, acc) ==
    LET n == Len(ps)
    IN  IF k > n * n THEN acc
        ELSE find_loop(ps, mp, ts, k + 1,
                       pair_step(ps, mp, ts, ((k - 1) \div n) + 1, ((k - 1) % n) + 1, acc))

find_arbitrage(ps, mp, ts) ==
    find_loop(ps, mp, ts, 1, [raised |-> FALSE, opps |-> <<>>, divided_by |-> <<>>])

(***************************************************************************)
(* SpecFind: find_arbitrage applied to every price mapping of PriceInputs  *)
(* under a configured threshold.                                           *)
(***************************************************************************)
K2 == BigMul(Big(996003), Big(996003))

PriceInputs ==
    { None,
      R(1790, 1), R(1800, 1), R(1805, 1),
      [neg |-> FALSE, n |-> K2, d |-> Pow10(9)],
      R(1010, 1),
      R(100000001, 100000) }

Thresholds == {MIN_PROFIT, 10 ^ 6}

Mapping(f) == [k \in 1..Len(DEXES) |-> [dex |-> DEXES[k], price |-> f[k]]]

InitFind ==
    /\ pc = "call"
    /\ exit_status = -1
    /\ cycle = 1
    /\ out_weth = <<>>
    /\ \E f \in [1..Len(DEXES) -> PriceInputs] : prices = Mapping(f)
    /\ opportunities = <<>>
    /\ df_log = <<>>
    /\ file = <<>>
    /\ min_profit \in Thresholds
    /\ prev_failed = {}
    /\ write_raised = FALSE

FindCall ==
    /\ pc = "call"
    /\ opportunities' = find_arbitrage(prices, min_profit, cycle).opps
    /\ pc' = "returned"
    /\ UNCHANGED <<exit_status, cycle, out_weth, prices, df_log, file,
                   min_profit, prev_failed, write_raised>>

NextFind == FindCall

SpecFind == InitFind /\ [][NextFind]_vars

(***************************************************************************)
(* Spec: the process.  The replies of the remote calls, the result of the  *)
(* connectivity probe and the faults of the file system are inputs.        *)
(***************************************************************************)
MaxCycles == 2

\* q * 10^14 wei of WETH
Wei(q) == [neg |-> FALSE, n |-> BigMul(Big(q), Pow10(14)), d |-> Big(1)]

AmountOuts == {R(0, 1), Wei(550), Wei(555)}

Replies ==
    {[raised |-> TRUE,  amounts |-> <<>>], [raised |-> FALSE, amounts |-> <<>>]}
    \cup {[raised |-> FALSE, amounts |-> <<R(START_AMOUNT, 1), a>>] : a \in AmountOuts}

Unavailable(ps) == {ps[k].dex : k \in {i \in 1..Len(ps) : ps[i].price = None}}

Prefixes(rows) == {SubSeq(rows, 1, k) : k \in 0..(Len(rows) - 1)}

\* line 166 and the interpreter's start: the state of a fresh process
Init ==
    /\ pc = "start"
    /\ exit_status = -1
    /\ cycle = 0
    /\ out_weth = <<>>
    /\ prices = <<>>
    /\ opportunities = <<>>
    /\ df_log = <<>>
    /\ file = <<>>
    /\ min_profit = MIN_PROFIT
    /\ prev_failed = {}
    /\ write_raised = FALSE

\* lines 200-202: web3.is_connected() is true, main_loop starts its first iteration
ProbeOk ==
    /\ pc = "start"
    /\ cycle < MaxCycles
    /\ pc' = "fetch"
    /\ cycle' = cycle + 1
    /\ UNCHANGED <<exit_status, out_weth, prices, opportunities, df_log, file,
                   min_profit, prev_failed, write_raised>>

\* lines 203-204: the probe fails; the script prints and runs off its end
ProbeFail ==
    /\ pc = "start"
    /\ pc' = "exited"
    /\ exit_status' = 0
    /\ UNCHANGED <<cycle, out_weth, prices, opportunities, df_log, file,
                   min_profit, prev_failed, write_raised>>

\* Sample with get_amount_out's try/except missing: a failed call ends the process
Sample_uncaught ==
    /\ pc = "fetch"
    /\ \E reply \in Replies :
          LET out == get_amount_out(reply)
          IN  IF out = None
              THEN /\ pc' = "exited"
                   /\ exit_status' = 1
                   /\ UNCHANGED <<out_weth, prices>>
              ELSE /\ out_weth' = Append(out_weth, out)
                   /\ prices' = Append(prices, [dex   |-> DEXES[Len(prices) + 1],
                                                price |-> price_entry(out)])
                   /\ pc' = IF Len(prices) + 1 = Len(DEXES) THEN "find" ELSE "fetch"
                   /\ UNCHANGED exit_status
    /\ UNCHANGED <<cycle, opportunities, df_log, file, min_profit, prev_failed,
                   write_raised>>

\* lines 106-113: one pass of the loop of fetch_prices; line 114 after the last
Sample ==
    /\ pc = "fetch"
    /\ \E reply \in Replies :
          LET out == get_amount_out(reply)
          IN  /\ out_weth' = Append(out_weth, out)
              /\ prices' = Append(prices, [dex   |-> DEXES[Len(prices) + 1],
                                           price |-> price_entry(out)])
    /\ pc' = IF Len(prices) + 1 = Len(DEXES) THEN "find" ELSE "fetch"
    /\ UNCHANGED <<exit_status, cycle, opportunities, df_log, file, min_profit,
                   prev_failed, write_raised>>

\* line 182
Find ==
    /\ pc = "find"
    /\ LET r == find_arbitrage(prices, min_profit, cycle)
       IN  IF r.raised
           THEN /\ pc' = "exited"
                /\ exit_status' = 1
                /\ UNCHANGED opportunities
           ELSE /\ pc' = "log"
                /\ opportunities' = r.opps
                /\ UNCHANGED exit_status
    /\ UNCHANGED <<cycle, out_weth, prices, df_log, file, min_profit, prev_failed,
                   write_raised>>

\* line 184: no opportunity, nothing is written
LogNothing ==
    /\ pc = "log"
    /\ opportunities = <<>>
    /\ pc' = "sleep"
    /\ UNCHANGED <<exit_status, cycle, out_weth, prices, opportunities, df_log, file,
                   min_profit, prev_failed, write_raised>>

\* lines 190-191: the rows are appended to df_log and the whole table is written
\* over arbitrage_log.csv
LogWrite ==
    /\ pc = "log"
    /\ opportunities # <<>>
    /\ df_log' = df_log \o opportunities
    /\ file' = df_log'
    /\ write_raised' = FALSE
    /\ pc' = "sleep"
    /\ UNCHANGED <<exit_status, cycle, out_weth, prices, opportunities, min_profit,
                   prev_failed>>

\* lines 190-191 when to_csv raises: nothing catches it, the process ends with a
\* traceback.  The file is untouched (it could not be opened) or truncated and
\* partly written.
LogWriteRaises ==
    /\ pc = "log"
    /\ opportunities # <<>>
    /\ df_log' = df_log \o opportunities
    /\ file' \in {file} \cup Prefixes(df_log')
    /\ write_raised' = TRUE
    /\ pc' = "exited"
    /\ exit_status' = 1
    /\ UNCHANGED <<cycle, out_weth, prices, opportunities, min_profit, prev_failed>>

\* Sleep in a loop that ends after its sleep
Sleep_then_return ==
    /\ pc = "sleep"
    /\ pc' = "exited"
    /\ exit_status' = 0
    /\ UNCHANGED <<cycle, out_weth, prices, opportunities, df_log, file, min_profit,
                   prev_failed, write_raised>>

\* line 193, then line 178-179: the next iteration starts with a fresh dict
Sleep ==
    /\ pc = "sleep"
    /\ cycle < MaxCycles
    /\ pc' = "fetch"
    /\ cycle' = cycle + 1
    /\ prev_failed' = Unavailable(prices)
    /\ prices' = <<>>
    /\ out_weth' = <<>>
    /\ UNCHANGED <<exit_status, opportunities, df_log, file, min_profit, write_raised>>

\* the process is started again (after it ended, or after it was killed in its
\* sleep): the module is loaded anew (line 166), the file stays as it is
Restart ==
    /\ pc \in {"sleep", "exited"}
    /\ pc' = "start"
    /\ exit_status' = -1
    /\ out_weth' = <<>>
    /\ prices' = <<>>
    /\ opportunities' = <<>>
    /\ df_log' = <<>>
    /\ prev_failed' = {}
    /\ write_raised' = FALSE
    /\ UNCHANGED <<cycle, file, min_profit>>

Next ==
    \/ ProbeOk
    \/ ProbeFail
    \/ Sample
    \/ Find
    \/ LogNothing
    \/ LogWrite
    \/ LogWriteRaises
    \/ Sleep
    \/ Restart

Spec == Init /\ [][Next]_vars

(***************************************************************************)
(* Helpers of the properties.                                              *)
(***************************************************************************)
Pairs(opps) == [k \in 1..Len(opps) |-> <<opps[k].buy_on, opps[k].sell_on>>]

Zero == R(0, 1)

InLoop == {"fetch", "find", "log", "sleep"}

(***************************************************************************)
(* C1: the persisted log is append-only: a log write leaves every row that *)
(* was in arbitrage_log.csv in place and in order, and the rows of the     *)
(* cycle follow them -- also when the process was restarted over an        *)
(* existing file.                                                          *)
(***************************************************************************)
C1_LogAppendOnly ==
    [][(pc = "log" /\ pc' = "sleep" /\ opportunities # <<>>)
          => file' = file \o opportunities]_vars

(***************************************************************************)
(* C2: when the connectivity probe fails, the process never enters         *)
(* main_loop (no sampling, no log write) and ends with a non-zero exit     *)
(* status.                                                                 *)
(***************************************************************************)
C2_ProbeFailureExitsNonZero ==
    [][(pc = "start" /\ pc' # "fetch")
          => /\ pc' = "exited"
             /\ exit_status' # 0
             /\ UNCHANGED <<out_weth, prices, df_log, file>>]_vars

(***************************************************************************)
(* C3: cycle isolation: when the log write of a cycle raises, the loop     *)
(* goes on (to its sleep and the next cycle) instead of ending.            *)
(***************************************************************************)
C3_CycleIsolation ==
    [][(pc = "log" /\ write_raised') => pc' = "sleep"]_vars

(***************************************************************************)
(* C4: a failed quote call is never fatal: get_amount_out returns None for *)
(* it, fetch_prices marks that venue alone unavailable and still samples   *)
(* every remaining venue of the cycle, the process only ever ends by a     *)
(* failed probe or a raising log write, and the next cycle samples the     *)
(* venue again.                                                            *)
(***************************************************************************)
FailedRepliesGiveNone ==
    \A reply \in Replies :
        (reply.raised \/ reply.amounts = <<>>) => get_amount_out(reply) = None

C4_QuoteFailureNotFatal ==
    /\ FailedRepliesGiveNone
    /\ Len(out_weth) = Len(prices)
    /\ \A k \in 1..Len(prices) :
          /\ out_weth[k] = None => prices[k].price = None
          /\ (out_weth[k] # None /\ out_weth[k] # Zero) => prices[k].price # None
    /\ pc \in {"find", "log", "sleep"} =>
          /\ Len(prices) = Len(DEXES)
          /\ prev_failed \subseteq {prices[k].dex : k \in 1..Len(prices)}
    /\ pc = "exited" => (write_raised \/ exit_status = 0)

C4_Witness ==
    /\ pc = "find"
    /\ cycle = 2
    /\ "Uniswap" \in prev_failed
    /\ prices[1].price # None
    /\ out_weth[2] = None
    /\ prices[3].price # None

(***************************************************************************)
(* C5: every opportunity find_arbitrage returns has buy_on # sell_on,      *)
(* buy_price < sell_price and a recorded profit (in quote-asset units)     *)
(* greater than MIN_PROFIT.                                                *)
(***************************************************************************)
C5_OpportunityInvariant ==
    \A k \in 1..Len(opportunities) :
        /\ opportunities[k].buy_on # opportunities[k].sell_on
        /\ RLess(opportunities[k].buy_price, opportunities[k].sell_price)
        /\ RLess(R(MIN_PROFIT, 1), opportunities[k].profit)

(***************************************************************************)
(* C7: fetch_prices gives exactly one entry per configured venue, in       *)
(* DEXES order, and an entry is a price exactly when the quote call        *)
(* returned a strictly positive amountOut; a failed call and a zero        *)
(* amountOut give None.  The prices fetch_prices returns are               *)
(* (START_AMOUNT / amountOut) * 10^12.                                     *)
(***************************************************************************)
\* START_AMOUNT * 10^12
ScaledStartAmount == [neg |-> FALSE, n |-> Pow10(20), d |-> Big(1)]

C7_FetchPricesEntries ==
    /\ Len(prices) = Len(out_weth)
    /\ Len(prices) <= Len(DEXES)
    /\ pc \in {"find", "log", "sleep"} => Len(prices) = Len(DEXES)
    /\ \A k \in 1..Len(prices) :
          /\ prices[k].dex = DEXES[k]
          /\ prices[k].price # None <=> (out_weth[k] # None /\ RLess(Zero, out_weth[k]))
    /\ pc = "find" =>
          \A k \in 1..Len(prices) :
              prices[k].price # None =>
                  REq(RMul(prices[k].price, out_weth[k]), ScaledStartAmount)

C7_Witness ==
    /\ pc = "find"
    /\ out_weth[1] = None /\ prices[1].price = None
    /\ out_weth[2] = Zero /\ prices[2].price = None
    /\ RLess(Zero, out_weth[3]) /\ prices[3].price # None

(***************************************************************************)
(* C10: each cycle runs Sample -> Find -> Log -> Sleep in that order: the  *)
(* log is written only after every venue was sampled and only when the     *)
(* cycle found an opportunity, the next cycle's sampling starts only after *)
(* the sleep of this one, and the loop has no exit of its own (the process *)
(* leaves it only when the log write raises).                              *)
(***************************************************************************)
C10_CycleOrder ==
    [][/\ (pc' = "fetch" /\ pc # "fetch") => (pc \in {"start", "sleep"} /\ prices' = <<>>)
       /\ (pc' = "fetch" /\ pc = "fetch") => Len(prices') = Len(prices) + 1
       /\ (pc' = "find") => (pc = "fetch" /\ Len(prices') = Len(DEXES))
       /\ (pc' = "log") => pc = "find"
       /\ (pc' = "sleep") => pc = "log"
       /\ (pc \in InLoop /\ pc' \notin InLoop /\ pc' # "start")
             => (pc = "log" /\ write_raised')
       /\ (pc \in InLoop /\ pc' # "start" /\ (file' # file \/ df_log' # df_log))
             => /\ pc = "log"
                /\ Len(prices) = Len(DEXES)
                /\ opportunities # <<>>
       /\ (pc = "log" /\ opportunities = <<>>) => (pc' = "sleep" /\ file' = file /\ df_log' = df_log)
       /\ (cycle' # cycle) => (cycle' = cycle + 1 /\ pc \in {"start", "sleep"} /\ pc' = "fetch")
      ]_vars

C10_Witness ==
    /\ pc = "sleep"
    /\ cycle = 2
    /\ file = df_log
    /\ Len(df_log) > Len(opportunities)
    /\ opportunities # <<>>

(***************************************************************************)
(* Properties of find_arbitrage, checked under SpecFind.                   *)
(***************************************************************************)
\* scenario 1: A = Uniswap at 1800, B = Quickswap at 1805, C = Sushiswap at 1790
Scenario1 ==
    /\ pc = "returned"
    /\ prices[1].price = R(1800, 1)
    /\ prices[2].price = R(1805, 1)
    /\ prices[3].price = R(1790, 1)

Reported(buy, sell) ==
    \E k \in 1..Len(opportunities) :
        /\ opportunities[k].buy_on = buy
        /\ opportunities[k].sell_on = sell
        /\ RLess(Zero, opportunities[k].profit)

(***************************************************************************)
(* C6 as stated: in scenario 1 with minProfit = 10^6 the list contains     *)
(* buy C / sell A and buy C / sell B, each with profit > 0.                *)
(***************************************************************************)
C6_Scenario1_AsStated ==
    (Scenario1 /\ min_profit = 10 ^ 6)
        => (Reported("Sushiswap", "Uniswap") /\ Reported("Sushiswap", "Quickswap"))

(***************************************************************************)
(* C6 amended: in scenario 1 buy C / sell A is never reported (it loses    *)
(* money after fees); with minProfit = 10^6 the list is empty, and with    *)
(* the program's MIN_PROFIT = 1 it is exactly [buy C / sell B], whose      *)
(* recorded profit lies between 0 and 1 quote-asset unit.                  *)
(***************************************************************************)
C6_Scenario1 ==
    Scenario1 =>
        /\ ~Reported("Sushiswap", "Uniswap")
        /\ min_profit = 10 ^ 6 => opportunities = <<>>
        /\ min_profit = MIN_PROFIT =>
              /\ Pairs(opportunities) = << <<"Sushiswap", "Quickswap">> >>
              /\ RLess(Zero, opportunities[1].profit)
              /\ RLess(opportunities[1].profit, One)

C6_Witness == Scenario1 /\ min_profit = 10 ^ 6 /\ opportunities = <<>>

(***************************************************************************)
(* C8: the list find_arbitrage returns is exactly the sequence, in         *)
(* iteration order (buy venue outer, sell venue inner, key order), of the  *)
(* ordered pairs with buy # sell, both prices available, buyPrice <        *)
(* sellPrice and                                                           *)
(*   START_AMOUNT*(1-fee)*(1-slip)/buyPrice*sellPrice*(1-fee)*(1-slip)     *)
(*     - START_AMOUNT > minProfit  (strictly),                             *)
(* each once, with the prices of the mapping.                              *)
(***************************************************************************)
\* the inequality above, multiplied out over the naturals
ClearsThreshold(buy, sell, mp) ==
    BigLess(BigMul(Big(START_AMOUNT + mp),
                   BigMul(Pow10(12), BigMul(buy.n, sell.d))),
            BigMul(Big(START_AMOUNT),
                   BigMul(BigMul(Big(997 * 999), Big(997 * 999)), BigMul(sell.n, buy.d))))

ProfitEqualsThreshold(buy, sell, mp) ==
    BigMul(Big(START_AMOUNT + mp), BigMul(Pow10(12), BigMul(buy.n, sell.d)))
      = BigMul(Big(START_AMOUNT),
               BigMul(BigMul(Big(997 * 999), Big(997 * 999)), BigMul(sell.n, buy.d)))

Qualifies(ps, i, j, mp) ==
    /\ i # j
    /\ ps[i].price # None
    /\ ps[j].price # None
    /\ RLess(ps[i].price, ps[j].price)
    /\ ClearsThreshold(ps[i].price, ps[j].price, mp)

IterationOrder(n) == [k \in 1..(n * n) |-> <<((k - 1) \div n) + 1, ((k - 1) % n) + 1>>]

QualifyingPair(ij) == Qualifies(prices, ij[1], ij[2], min_profit)

C8_AllQualifyingPairsInOrder ==
    pc = "returned" =>
        LET want == SelectSeq(IterationOrder(Len(prices)), QualifyingPair)
        IN  /\ Len(opportunities) = Len(want)
            /\ \A k \in 1..Len(want) :
                  /\ opportunities[k].buy_on = prices[want[k][1]].dex
                  /\ opportunities[k].sell_on = prices[want[k][2]].dex
                  /\ opportunities[k].buy_price = prices[want[k][1]].price
                  /\ opportunities[k].sell_price = prices[want[k][2]].price

\* a pair whose profit equals the threshold is left out, two others are reported,
\* and the first reported is the more profitable one
C8_Witness ==
    /\ pc = "returned"
    /\ prices[1].price # None /\ prices[3].price # None
    /\ RLess(prices[1].price, prices[3].price)
    /\ ProfitEqualsThreshold(prices[1].price, prices[3].price, min_profit)
    /\ Pairs(opportunities) = << <<"Uniswap", "Quickswap">>, <<"Sushiswap", "Quickswap">> >>
    /\ RLess(opportunities[2].profit, opportunities[1].profit)

(***************************************************************************)
(* C9: a venue whose price is None is in no returned opportunity and its   *)
(* price is never compared or divided by; the list is the one the mapping  *)
(* without the unavailable venues gives, and it is empty when every venue  *)
(* is unavailable.                                                         *)
(***************************************************************************)
IsAvailable(e) == e.price # None

C9_UnavailableVenuesExcluded ==
    pc = "returned" =>
        LET r == find_arbitrage(prices, min_profit, cycle)
        IN  /\ ~r.raised
            /\ \A k \in 1..Len(r.divided_by) : r.divided_by[k] \notin Unavailable(prices)
            /\ \A k \in 1..Len(opportunities) :
                  /\ opportunities[k].buy_on \notin Unavailable(prices)
                  /\ opportunities[k].sell_on \notin Unavailable(prices)
            /\ opportunities = find_arbitrage(SelectSeq(prices, IsAvailable), min_profit, cycle).opps
            /\ Unavailable(prices) = {DEXES[k] : k \in 1..Len(DEXES)} => opportunities = <<>>

C9_Witness ==
    /\ pc = "returned"
    /\ Unavailable(prices) = {"Quickswap"}
    /\ Pairs(opportunities) = << <<"Uniswap", "Sushiswap">> >>

====
